---- MODULE Spec2Model ----
(***************************************************************************)
(* api-ocr: a mock OCR HTTP service.  One request is served per behaviour: *)
(* POST /ocr (one processOCR goroutine raced against the request context)  *)
(* or POST /ocr/batch (processBatchOCR: one goroutine per item, a single   *)
(* collector loop that places tagged results by index and back-fills on    *)
(* cancellation).  Indices are 0-based as in the Go source.                *)
(***************************************************************************)
EXTENDS Integers, Sequences, FiniteSets, TLC

\* ------------------------------------------------------------------ bounds
\* Largest batch explored.
MaxItems == 2

\* ------------------------------------------------------- request contents
\* Values a decoded "key" field takes ("" is a missing/empty field).
KeySet == {"", "k1", "k2"}
\* Values a decoded "url" field takes.
UrlSet == {"", "http://x"}

OCRRequest(k, u) == [Key |-> k, URL |-> u]
OCRRequestSet == {OCRRequest(k, u) : k \in KeySet, u \in UrlSet}

\* APIResponse; Body is a sequence of text tokens, <<>> is the empty string.
APIResponse(k, sc, b, e) == [Key |-> k, StatusCode |-> sc, Body |-> b, Err |-> e]
\* The zero value make([]APIResponse, n) fills every slot with.
ZeroResponse == APIResponse("", 0, <<>>, "")

\* ----------------------------------------------------- text synthesis
randomTexts ==
  << "Documento de identificación", "Pasaporte República Argentina",
     "Licencia de conducir", "Factura comercial No. 12345",
     "Certificado de nacimiento", "Contrato de trabajo",
     "Recibo de pago mensual", "Diploma universitario",
     "Tarjeta de crédito VISA", "Boleta de servicios públicos" >>

additionalWords ==
  << "validez", "expedición", "número", "fecha", "código", "serie", "emisión" >>

DigitChar == << "0", "1", "2", "3", "4", "5", "6", "7", "8", "9" >>

\* fmt.Sprintf("%d", n) for n >= 0: the decimal digits, most significant first.
RECURSIVE Sprintf(_)
Sprintf(n) ==
  IF n < 10 THEN << DigitChar[n + 1] >>
  ELSE Sprintf(n \div 10) \o << DigitChar[(n % 10) + 1] >>

\* One run of the random source inside processOCR: t = rand.Intn(10),
\* fm = rand.Float32() in thousandths, w = rand.Intn(7), n = rand.Intn(9999).
RandDraw(t, fm, w, n) == [t |-> t, fm |-> fm, w |-> w, n |-> n]

\* The draws explored in the concurrent model: both ends of every range.
RandSamples ==
  { RandDraw(0, 999, 0, 0), RandDraw(9, 0, 6, 9998) }

\* selectedText as built at lines 67-74.
SelectedText(d) ==
  IF d.fm < 700
    THEN << randomTexts[d.t + 1], " ", additionalWords[d.w + 1], " " >>
           \o Sprintf(d.n + 1000)
    ELSE << randomTexts[d.t + 1] >>

\* Mutant: the Key field left out of the struct literal.
ProcessedResponseNoKey(key, d) == APIResponse("", 200, SelectedText(d), "")

\* Mutant: the struct literal also fills Error, with the status text.
ProcessedResponseErrOK(key, d) == APIResponse(key, 200, SelectedText(d), "OK")

\* processOCR's return value when the simulated delay elapsed first.
ProcessedResponse(key, d) == APIResponse(key, 200, SelectedText(d), "")

\* processOCR's return value when ctx.Done() was selected.
CancelledResponse(key) ==
  APIResponse(key, 408, <<>>, "Procesamiento cancelado por timeout")

\* ctx.Err() values; Nil while the context is live.
Nil == "nil"
Canceled == "context canceled"
DeadlineExceeded == "context deadline exceeded"

\* ------------------------------------------------------------------ state
VARIABLES
  endpoint,    \* "ocr" or "batch": the route the request hit
  decodeErr,   \* json Decode returned an error
  in,          \* the decoded OCRRequest of POST /ocr
  items,       \* the decoded items of POST /ocr/batch, a function on 0..N-1
  hpc,         \* position of the handler goroutine
  launched,    \* number of worker goroutines started so far
  i,           \* the collector loop variable of processBatchOCR
  results,     \* the results slice of processBatchOCR, a function on 0..N-1
  resultChan,  \* buffered channel of results (sequence, head is received next)
  errorChan,   \* buffered channel of errors of the POST /ocr handler
  wpc,         \* position of each worker goroutine
  timer,       \* timer[w]: the time.After channel of worker w has fired
  wresp,       \* resp returned by processOCR in worker w
  werr,        \* err returned by processOCR in worker w
  ctxErr,      \* ctx.Err(): Nil until the request context is done
  written,     \* the HTTP responses written to w, in order
  hist         \* history of the run, read only by the properties

vars == << endpoint, decodeErr, in, items, hpc, launched, i, results,
           resultChan, errorChan, wpc, timer, wresp, werr, ctxErr, written,
           hist >>

N == Cardinality(DOMAIN items)
Slots == 0 .. (N - 1)
ctxDone == ctxErr # Nil

\* The goroutines running processOCR: one for POST /ocr, one per item for a batch.
Workers == IF endpoint = "ocr" THEN {0} ELSE Slots

\* The key processOCR is called with in worker w.
KeyOf(w) == IF endpoint = "ocr" THEN in.Key ELSE items[w].Key

\* The handler has been entered and has not returned.
InFlight == hpc # "done"

InitHist ==
  [ writes       |-> [j \in Slots |-> 0],  \* assignments made to results[j]
    drained      |-> {},     \* indices whose completion was received
    observed     |-> FALSE,  \* the collector has selected ctx.Done()
    obsDrained   |-> {},     \* drained, when ctx.Done() was first selected
    obsResults   |-> << >>,  \* results, when ctx.Done() was first selected
    backfills    |-> 0,      \* executions of the backfill loop
    recvAfterObs |-> 0,      \* completions received after ctx.Done() was selected
    early        |-> {},     \* workers whose 200 result was built while ctx was live
    lateTimer    |-> {},     \* POST /ocr: workers waiting on an unfired timer at Cancel
    clientCancel |-> FALSE,  \* ctx was cancelled before the handler returned
    sent         |-> [w \in Workers |-> 0] ] \* channel sends completed by worker w

Init ==
  /\ endpoint \in {"ocr", "batch"}
  /\ decodeErr \in BOOLEAN
  /\ IF endpoint = "ocr"
       THEN /\ in \in OCRRequestSet
            /\ items = << >>
       ELSE /\ in = OCRRequest("", "")
            /\ \E n \in 0 .. MaxItems : items \in [0 .. (n - 1) -> OCRRequestSet]
  /\ hpc = "decode"
  /\ launched = 0
  /\ i = 0
  /\ results = << >>
  /\ resultChan = << >>
  /\ errorChan = << >>
  /\ wpc = [w \in Workers |-> "idle"]
  /\ timer = [w \in Workers |-> FALSE]
  /\ wresp = [w \in Workers |-> ZeroResponse]
  /\ werr = [w \in Workers |-> Nil]
  /\ ctxErr = Nil
  /\ written = << >>
  /\ hist = InitHist

\* ------------------------------------------------------------ environment
\* The request context is cancelled (client went away, or the 15 s deadline).
Cancel ==
  /\ InFlight
  /\ ~ctxDone
  /\ \E cause \in {Canceled, DeadlineExceeded} : ctxErr' = cause
  /\ hist' = [hist EXCEPT
                !.lateTimer = IF endpoint = "ocr"
                                THEN {w \in Workers : wpc[w] = "select" /\ ~timer[w]}
                                ELSE {},
                !.clientCancel = TRUE]
  /\ UNCHANGED << endpoint, decodeErr, in, items, hpc, launched, i, results,
                  resultChan, errorChan, wpc, timer, wresp, werr, written >>

\* The simulated delay of worker w elapses: its time.After channel fires.
TimerFire(w) ==
  /\ wpc[w] = "select"
  /\ ~timer[w]
  /\ timer' = [timer EXCEPT ![w] = TRUE]
  /\ UNCHANGED << endpoint, decodeErr, in, items, hpc, launched, i, results,
                  resultChan, errorChan, wpc, wresp, werr, ctxErr, written,
                  hist >>

\* ------------------------------------------------------------- processOCR
\* Mutant: the delay path reports a deadline of its own as an error.
CompletedErrDeadline == DeadlineExceeded

\* The error returned next to the 200 result: "}, nil".
CompletedErr == Nil

\* select chose <-time.After(processingTime) and the random source gave d:
\* build and return the 200 result.
ProcessOCRDraw(w, d) ==
  /\ wpc[w] = "select"
  /\ timer[w]
  /\ wresp' = [wresp EXCEPT ![w] = ProcessedResponse(KeyOf(w), d)]
  /\ werr' = [werr EXCEPT ![w] = CompletedErr]
  /\ wpc' = [wpc EXCEPT ![w] = "send"]
  /\ hist' = [hist EXCEPT !.early = IF ctxDone THEN @ ELSE @ \cup {w}]
  /\ UNCHANGED << endpoint, decodeErr, in, items, hpc, launched, i, results,
                  resultChan, errorChan, timer, ctxErr, written >>

\* select chose <-time.After(processingTime): build and return the 200 result.
ProcessOCRCompleted(w) == \E d \in RandSamples : ProcessOCRDraw(w, d)

\* select chose <-ctx.Done(): return the 408 result together with ctx.Err().
ProcessOCRCancelled(w) ==
  /\ wpc[w] = "select"
  /\ ctxDone
  /\ wresp' = [wresp EXCEPT ![w] = CancelledResponse(KeyOf(w))]
  /\ werr' = [werr EXCEPT ![w] = ctxErr]
  /\ wpc' = [wpc EXCEPT ![w] = "send"]
  /\ UNCHANGED << endpoint, decodeErr, in, items, hpc, launched, i, results,
                  resultChan, errorChan, timer, ctxErr, written, hist >>

\* ------------------------------------------------------ POST /ocr handler
InvalidJSONResponse == APIResponse("", 400, <<>>, "JSON inválido. Se espera {key,url}")
\* Mutant: the 408 branch encodes the status_code of the 499 branch.
TimeoutResponseAs499(key) == APIResponse(key, 499, <<>>, "Timeout durante procesamiento")
TimeoutResponse(key) == APIResponse(key, 408, <<>>, "Timeout durante procesamiento")
ClientCancelledResponse(key) == APIResponse(key, 499, <<>>, "Cliente canceló la request")

\* One write of a response: the HTTP status and the JSON body.
Response(status, body) == [http |-> status, body |-> body]

\* Decode failed or a field is empty: 400 and return.
OcrReject ==
  /\ endpoint = "ocr"
  /\ hpc = "decode"
  /\ decodeErr \/ in.Key = "" \/ in.URL = ""
  /\ written' = Append(written, Response(400, InvalidJSONResponse))
  /\ hpc' = "responded"
  /\ UNCHANGED << endpoint, decodeErr, in, items, launched, i, results,
                  resultChan, errorChan, wpc, timer, wresp, werr, ctxErr, hist >>

\* Make the two channels and start the goroutine; the handler then waits in select.
OcrLaunch ==
  /\ endpoint = "ocr"
  /\ hpc = "decode"
  /\ ~(decodeErr \/ in.Key = "" \/ in.URL = "")
  /\ resultChan' = << >>
  /\ errorChan' = << >>
  /\ wpc' = [wpc EXCEPT ![0] = "select"]
  /\ launched' = 1
  /\ hpc' = "wait"
  /\ UNCHANGED << endpoint, decodeErr, in, items, i, results, timer, wresp,
                  werr, ctxErr, written, hist >>

\* The goroutine's send: errorChan <- err, or resultChan <- result (capacity 1 each).
OcrSend ==
  /\ endpoint = "ocr"
  /\ wpc[0] = "send"
  /\ IF werr[0] # Nil
       THEN /\ Len(errorChan) < 1
            /\ errorChan' = Append(errorChan, werr[0])
            /\ UNCHANGED resultChan
       ELSE /\ Len(resultChan) < 1
            /\ resultChan' = Append(resultChan, wresp[0])
            /\ UNCHANGED errorChan
  /\ wpc' = [wpc EXCEPT ![0] = "done"]
  /\ hist' = [hist EXCEPT !.sent[0] = @ + 1]
  /\ UNCHANGED << endpoint, decodeErr, in, items, hpc, launched, i, results,
                  timer, wresp, werr, ctxErr, written >>

\* case result := <-resultChan: encode it, status 200 by default.
OcrRecvResult ==
  /\ endpoint = "ocr"
  /\ hpc = "wait"
  /\ resultChan # << >>
  /\ written' = Append(written, Response(200, Head(resultChan)))
  /\ resultChan' = Tail(resultChan)
  /\ hpc' = "responded"
  /\ UNCHANGED << endpoint, decodeErr, in, items, launched, i, results,
                  errorChan, wpc, timer, wresp, werr, ctxErr, hist >>

\* case <-errorChan: 408.
OcrRecvError ==
  /\ endpoint = "ocr"
  /\ hpc = "wait"
  /\ errorChan # << >>
  /\ written' = Append(written, Response(408, TimeoutResponse(in.Key)))
  /\ errorChan' = Tail(errorChan)
  /\ hpc' = "responded"
  /\ UNCHANGED << endpoint, decodeErr, in, items, launched, i, results,
                  resultChan, wpc, timer, wresp, werr, ctxErr, hist >>

\* case <-r.Context().Done(): 499.
OcrCtxDone ==
  /\ endpoint = "ocr"
  /\ hpc = "wait"
  /\ ctxDone
  /\ written' = Append(written, Response(499, ClientCancelledResponse(in.Key)))
  /\ hpc' = "responded"
  /\ UNCHANGED << endpoint, decodeErr, in, items, launched, i, results,
                  resultChan, errorChan, wpc, timer, wresp, werr, ctxErr, hist >>

\* The handler returns; the server then cancels the request context.
Return ==
  /\ hpc = "responded"
  /\ hpc' = "done"
  /\ ctxErr' = IF ctxDone THEN ctxErr ELSE Canceled
  /\ UNCHANGED << endpoint, decodeErr, in, items, launched, i, results,
                  resultChan, errorChan, wpc, timer, wresp, werr, written, hist >>

\* -------------------------------------------------- POST /ocr/batch handler
BatchInvalidJSON == [error |-> << "JSON inválido. Se espera {items: [{key,url},...]}" >>]

\* fmt.Sprintf("Item %d: key y url son requeridos", idx)
ItemRequired(idx) ==
  [error |-> << "Item " >> \o Sprintf(idx) \o << ": key y url son requeridos" >>]

\* Mutant: the validation loop tests item.Key only.
InvalidItemsKeyOnly == {j \in Slots : items[j].Key = ""}

\* The indices the validation loop would reject.
InvalidItems == {j \in Slots : items[j].Key = "" \/ items[j].URL = ""}

\* The range loop returns at the first invalid item.
FirstInvalid == CHOOSE j \in InvalidItems : \A k \in InvalidItems : j <= k

\* Decode failed or len(Items) == 0: 400 and return.
BatchReject ==
  /\ endpoint = "batch"
  /\ hpc = "decode"
  /\ decodeErr \/ N = 0
  /\ written' = Append(written, Response(400, BatchInvalidJSON))
  /\ hpc' = "responded"
  /\ UNCHANGED << endpoint, decodeErr, in, items, launched, i, results,
                  resultChan, errorChan, wpc, timer, wresp, werr, ctxErr, hist >>

\* An item has an empty key or url: 400 naming the item, and return.
BatchRejectItem ==
  /\ endpoint = "batch"
  /\ hpc = "decode"
  /\ ~(decodeErr \/ N = 0)
  /\ InvalidItems # {}
  /\ written' = Append(written, Response(400, ItemRequired(FirstInvalid)))
  /\ hpc' = "responded"
  /\ UNCHANGED << endpoint, decodeErr, in, items, launched, i, results,
                  resultChan, errorChan, wpc, timer, wresp, werr, ctxErr, hist >>

\* -------------------------------------------------------- processBatchOCR
\* Mutant: make([]APIResponse, 0, len(items)), a slice of length 0.
MakeResultsEmpty == << >>

\* results := make([]APIResponse, len(items))
MakeResults == [j \in Slots |-> ZeroResponse]

\* Mutant: make(chan result, len(items)-1), a buffer one message short.
ResultChanCapShort == N - 1

\* cap(resultChan) of make(chan result, len(items))
ResultChanCap == N

\* processBatchOCR is entered: the results slice and the channel are made.
EnterProcessBatchOCR ==
  /\ endpoint = "batch"
  /\ hpc = "decode"
  /\ results' = MakeResults
  /\ resultChan' = << >>
  /\ launched' = 0
  /\ hpc' = "launch"
  /\ UNCHANGED << endpoint, decodeErr, in, items, i, errorChan, wpc, timer,
                  wresp, werr, ctxErr, written, hist >>

\* Validation passed: the handler calls processBatchOCR(r.Context(), req.Items).
BatchEnter ==
  /\ ~(decodeErr \/ N = 0)
  /\ InvalidItems = {}
  /\ EnterProcessBatchOCR

\* One iteration of the range loop: go func(index, req) for the next item;
\* after the last one the collector loop starts with i := 0.
BatchLaunch ==
  /\ endpoint = "batch"
  /\ hpc = "launch"
  /\ launched < N
  /\ wpc' = [wpc EXCEPT ![launched] = "select"]
  /\ launched' = launched + 1
  /\ IF launched + 1 = N
       THEN hpc' = "collect" /\ i' = 0
       ELSE UNCHANGED << hpc, i >>
  /\ UNCHANGED << endpoint, decodeErr, in, items, results, resultChan,
                  errorChan, timer, wresp, werr, ctxErr, written, hist >>

\* Mutant: the goroutine closes over the loop variable instead of taking
\* index as a parameter, and reads it after the loop has finished.
WorkerResultSharedIndex(w) ==
  [ index |-> N - 1,
    resp  |-> IF werr[w] # Nil
                THEN APIResponse(items[w].Key, 500, <<>>, werr[w])
                ELSE wresp[w] ]

\* The result a worker sends: a 500 wrapping err.Error() when processOCR failed.
WorkerResult(w) ==
  [ index |-> w,
    resp  |-> IF werr[w] # Nil
                THEN APIResponse(items[w].Key, 500, <<>>, werr[w])
                ELSE wresp[w] ]

\* resultChan <- result{index, resp}
BatchSend(w) ==
  /\ endpoint = "batch"
  /\ wpc[w] = "send"
  /\ Len(resultChan) < ResultChanCap
  /\ resultChan' = Append(resultChan, WorkerResult(w))
  /\ wpc' = [wpc EXCEPT ![w] = "done"]
  /\ hist' = [hist EXCEPT !.sent[w] = @ + 1]
  /\ UNCHANGED << endpoint, decodeErr, in, items, hpc, launched, i, results,
                  errorChan, timer, wresp, werr, ctxErr, written >>

\* Mutant: the cancellation message stored in Body instead of Error.
BatchCancelledResponseText(key) ==
  APIResponse(key, 408, << "Batch processing cancelled or timed out" >>, "")

\* The value the backfill loop stores for the item with this key.
BatchCancelledResponse(key) ==
  APIResponse(key, 408, <<>>, "Batch processing cancelled or timed out")

\* Mutant: the backfill loop without its "Only fill empty slots" test.
BackfillSlotsAll(res, from) == {j \in Slots : j >= from}

\* The slots the loop "for j := from; j < len(items); j++" assigns.
BackfillSlots(res, from) == {j \in Slots : j >= from /\ res[j].Key = ""}

\* results after the backfill loop started at index from.
Backfill(res, from) ==
  [j \in Slots |-> IF j \in BackfillSlots(res, from)
                     THEN BatchCancelledResponse(items[j].Key)
                     ELSE res[j]]

\* results after results[res.index] = *res.resp
Place(res, msg) == [res EXCEPT ![msg.index] = msg.resp]

\* Mutant: once the context is done the iteration is retried (i is not advanced).
AfterSelectRetry == IF ctxDone THEN i ELSE i + 1

\* Where the collector goes after a select statement: the break leaves the
\* select only, so i++ runs and the loop condition is tested again.
AfterSelect == i + 1

\* case res := <-resultChan
CollectRecv ==
  /\ endpoint = "batch"
  /\ hpc = "collect"
  /\ i < N
  /\ resultChan # << >>
  /\ LET msg == Head(resultChan) IN
       /\ results' = Place(results, msg)
       /\ hist' = [hist EXCEPT
                     !.writes[msg.index] = @ + 1,
                     !.drained = @ \cup {msg.index},
                     !.recvAfterObs = IF hist.observed THEN @ + 1 ELSE @]
  /\ resultChan' = Tail(resultChan)
  /\ i' = AfterSelect
  /\ UNCHANGED << endpoint, decodeErr, in, items, hpc, launched, errorChan,
                  wpc, timer, wresp, werr, ctxErr, written >>

\* case <-ctx.Done(): the backfill loop, then break.
CollectCancel ==
  /\ endpoint = "batch"
  /\ hpc = "collect"
  /\ i < N
  /\ ctxDone
  /\ results' = Backfill(results, i)
  /\ hist' = [hist EXCEPT
                !.writes = [j \in Slots |->
                              IF j \in BackfillSlots(results, i) THEN @[j] + 1 ELSE @[j]],
                !.observed = TRUE,
                !.obsDrained = IF hist.observed THEN @ ELSE hist.drained,
                !.obsResults = IF hist.observed THEN @ ELSE results,
                !.backfills = @ + 1]
  /\ i' = AfterSelect
  /\ UNCHANGED << endpoint, decodeErr, in, items, hpc, launched, resultChan,
                  errorChan, wpc, timer, wresp, werr, ctxErr, written >>

\* The loop condition fails: return &BatchAPIResponse{Results: results}; the
\* handler encodes it with the default status 200.
BatchRespond ==
  /\ endpoint = "batch"
  /\ hpc = "collect"
  /\ ~(i < N)
  /\ written' = Append(written, Response(200, [Results |-> results]))
  /\ hpc' = "responded"
  /\ UNCHANGED << endpoint, decodeErr, in, items, launched, i, results,
                  resultChan, errorChan, wpc, timer, wresp, werr, ctxErr, hist >>

\* ------------------------------------------------------------ the system
WorkerTimer == \E w \in Workers : TimerFire(w)
WorkerCompleted == \E w \in Workers : ProcessOCRCompleted(w)
WorkerCancelled == \E w \in Workers : ProcessOCRCancelled(w)
WorkerSend == \E w \in Workers : BatchSend(w)

Next ==
  \/ Cancel
  \/ WorkerTimer
  \/ WorkerCompleted
  \/ WorkerCancelled
  \/ OcrReject
  \/ OcrLaunch
  \/ OcrSend
  \/ OcrRecvResult
  \/ OcrRecvError
  \/ OcrCtxDone
  \/ BatchReject
  \/ BatchRejectItem
  \/ BatchEnter
  \/ BatchLaunch
  \/ WorkerSend
  \/ CollectRecv
  \/ CollectCancel
  \/ BatchRespond
  \/ Return

Spec == Init /\ [][Next]_vars

\* Per-goroutine steps, for the fairness the Go scheduler and timers give:
\* a runnable goroutine eventually runs and a started timer eventually fires.
\* Nothing obliges the client to cancel.
HandlerStep ==
  \/ OcrReject \/ OcrLaunch \/ OcrRecvResult \/ OcrRecvError \/ OcrCtxDone
  \/ BatchReject \/ BatchRejectItem \/ BatchEnter \/ BatchLaunch
  \/ CollectRecv \/ CollectCancel \/ BatchRespond \/ Return

WorkerStep(w) ==
  /\ w \in Workers
  /\ \/ TimerFire(w) \/ ProcessOCRCompleted(w) \/ ProcessOCRCancelled(w)
     \/ (OcrSend /\ w = 0) \/ BatchSend(w)

WorkersFair == \A w \in 0 .. MaxItems : WF_vars(WorkerStep(w))

FairSpec == Spec /\ WF_vars(HandlerStep) /\ WorkersFair

\* The POST /ocr route alone, under the same fairness.
OcrInit == Init /\ endpoint = "ocr"

OcrNext ==
  \/ Cancel
  \/ WorkerTimer
  \/ WorkerCompleted
  \/ WorkerCancelled
  \/ OcrReject
  \/ OcrLaunch
  \/ OcrSend
  \/ OcrRecvResult
  \/ OcrRecvError
  \/ OcrCtxDone
  \/ Return

OcrFairSpec == OcrInit /\ [][OcrNext]_vars /\ WF_vars(HandlerStep) /\ WorkersFair

\* processBatchOCR alone: a valid batch of 1..MaxItems items (termination
\* reads no key, so one key is used).  Only the handler goroutine is
\* scheduled fairly; the workers may stall for ever.
BatchInit ==
  /\ Init
  /\ endpoint = "batch"
  /\ ~decodeErr
  /\ N >= 1
  /\ \A j \in Slots : items[j] = OCRRequest("k1", "http://x")

BatchNext ==
  \/ Cancel
  \/ WorkerTimer
  \/ WorkerCompleted
  \/ WorkerCancelled
  \/ BatchEnter
  \/ BatchLaunch
  \/ WorkerSend
  \/ CollectRecv
  \/ CollectCancel
  \/ BatchRespond
  \/ Return

BatchHandlerFairSpec == BatchInit /\ [][BatchNext]_vars /\ WF_vars(HandlerStep)

\* ---------------------------------------------------------------- claims
\* POST /ocr passed validation.
ValidOcr == endpoint = "ocr" /\ ~decodeErr /\ in.Key # "" /\ in.URL # ""

\* processBatchOCR has returned and its result was written.
BatchReturned == endpoint = "batch" /\ written # << >> /\ written[1].http = 200

\* The sequence processBatchOCR returned.
Returned == written[1].body.Results

\* C1: whatever the interleaving of completions and cancellation, the result
\* processBatchOCR returns has results[j].Key = items[j].Key at every index j.
C1_PositionalKeys ==
  BatchReturned => \A j \in Slots : Returned[j].Key = items[j].Key

\* C2: the results slice has exactly len(items) entries from its allocation
\* on, and so has the sequence processBatchOCR returns, also after a backfill.
C2_LengthPreserved ==
  /\ (endpoint = "batch" /\ hpc \in {"launch", "collect"}) => DOMAIN results = DOMAIN items
  /\ BatchReturned => DOMAIN Returned = DOMAIN items

\* C2 witness: a batch of two returned after the collector selected ctx.Done().
C2_Witness == BatchReturned /\ N = 2 /\ hist.observed

\* C3: when the collector selects ctx.Done() after k < N completions were
\* drained, the returned result holds those k results unchanged and the 408
\* batch-cancellation entry, keyed by its item, in every other slot.
C3_CancelledBatchShape ==
  (BatchReturned /\ hist.observed /\ Cardinality(hist.obsDrained) < N) =>
     \A j \in Slots :
        IF j \in hist.obsDrained
          THEN Returned[j] = hist.obsResults[j]
          ELSE Returned[j] = BatchCancelledResponse(items[j].Key)

\* C4: with non-empty keys, a run of the backfill loop leaves every slot that
\* a drained completion has filled as it was.
C4_BackfillKeepsDrained ==
  [][ (hist'.backfills # hist.backfills) =>
        \A j \in hist.drained : results'[j] = results[j] ]_vars

\* C4 witness: the backfill loop ran from an index at or below a slot that
\* already held a drained 200 result.
C4_Witness ==
  /\ endpoint = "batch"
  /\ hist.observed
  /\ \E j \in hist.obsDrained :
        /\ j >= Cardinality(hist.obsDrained)
        /\ hist.obsResults[j].StatusCode = 200
        /\ results[j] = hist.obsResults[j]

\* C5: when processBatchOCR returns, every slot has been assigned exactly
\* once, counting drained completions and backfill assignments together.
C5_OneWritePerSlot ==
  BatchReturned => \A j \in Slots : hist.writes[j] = 1

\* C6: a valid POST /ocr whose context is cancelled before the simulated
\* delay has elapsed is answered 499 with an error text and no full_text.
C6_EarlyCancelIs499 ==
  (ValidOcr /\ written # << >> /\ 0 \in hist.lateTimer) =>
     /\ written[1].http = 499
     /\ written[1].body.StatusCode = 499
     /\ written[1].body.Err # ""
     /\ written[1].body.Body = << >>

\* C7: a processOCR call that built its 200 result while the context was
\* still live has that result in the response: it is the POST /ocr response,
\* and it is the item's slot in the result processBatchOCR returns.
C7_FinishedWorkIsReported ==
  /\ (ValidOcr /\ written # << >> /\ 0 \in hist.early) =>
        written[1].body = wresp[0]
  /\ BatchReturned => \A w \in hist.early : Returned[w] = wresp[w]

\* C8: a valid POST /ocr during which the context is never cancelled is
\* answered 200 with the request's key, a non-empty full_text and no err.
C8_UncancelledIs200 ==
  (ValidOcr /\ written # << >> /\ ~hist.clientCancel) =>
     /\ written[1].http = 200
     /\ written[1].body.StatusCode = 200
     /\ written[1].body.Key = in.Key
     /\ written[1].body.Body # << >>
     /\ written[1].body.Err = ""

\* C8 witness: a valid POST /ocr was answered and returned, never cancelled.
C8_Witness ==
  ValidOcr /\ hpc = "done" /\ Len(written) = 1 /\ ~hist.clientCancel

\* C9: under fair scheduling every valid POST /ocr is answered: exactly one
\* response is written, its status_code is 200, 408 or 499, its HTTP status
\* is that status_code, and the handler returns.
C9_OcrAnswersOnce ==
  /\ [](ValidOcr =>
          /\ Len(written) <= 1
          /\ written # << >> =>
               /\ written[1].body.StatusCode \in {200, 408, 499}
               /\ written[1].http = written[1].body.StatusCode)
  /\ (ValidOcr ~> (hpc = "done" /\ Len(written) = 1))

\* C9 witness: a valid POST /ocr returned after answering 408.
C9_Witness ==
  ValidOcr /\ hpc = "done" /\ Len(written) = 1 /\ written[1].http = 408

\* The collector is inside its loop, about to execute the select statement.
Collecting == endpoint = "batch" /\ hpc = "collect" /\ i < N

\* Every worker goroutine has sent its result.
AllSent == \A w \in Slots : wpc[w] = "done"

\* C10: once the context is done the collector never blocks: its ctx.Done()
\* case is ready at every select and every select advances i by one up to N,
\* so with the handler alone scheduled it returns within N selects.  A batch
\* never cancelled returns once all N workers have completed: no worker that
\* has started is ever blocked, and the collector returns uncancelled only
\* after draining all N completions.
C10_CollectorTerminates ==
  /\ []((Collecting /\ ctxDone) => ENABLED CollectCancel)
  /\ [][(CollectRecv \/ CollectCancel) => (i' = i + 1 /\ i' <= N)]_vars
  /\ ((Collecting /\ (ctxDone \/ AllSent)) ~> BatchReturned)
  /\ [](\A w \in Slots : wpc[w] \in {"select", "send"} => ENABLED WorkerStep(w))
  /\ []((BatchReturned /\ ~hist.observed) => hist.drained = Slots)

\* C10 witness: a batch of two returned although a worker never got past its
\* select: the collector took the ctx.Done() case instead of waiting for it.
C10_Witness ==
  /\ BatchReturned
  /\ N = 2
  /\ hist.observed
  /\ hpc = "responded"
  /\ \E w \in Slots : wpc[w] = "select"

\* The APIResponse values that were sent to the client: the body of a POST /ocr
\* response, or every slot of the slice a batch returned.  (The 400 of the
\* batch route is a map with an "error" entry, not an APIResponse.)
ResponseResults ==
  IF written = << >> THEN {}
  ELSE IF endpoint = "ocr" THEN {written[1].body}
  ELSE IF BatchReturned THEN {Returned[j] : j \in DOMAIN Returned}
  ELSE {}

\* C11: every result that appears in a response (the single response, or any
\* slot of a returned batch) satisfies exactly one of: status 200 with a
\* non-empty text; or a status other than 200 with a non-empty error.
C11_ResultShape ==
  \A r \in ResponseResults :
    (r.StatusCode = 200 /\ r.Body # << >>) # (r.StatusCode # 200 /\ r.Err # "")

\* C12: for every result in a response, status 200 implies an empty error,
\* and a status of 408, 499 or 500 implies an empty text.
C12_StatusCoherence ==
  \A r \in ResponseResults :
    /\ r.StatusCode = 200 => r.Err = ""
    /\ r.StatusCode \in {408, 499, 500} => r.Body = << >>

\* C12 witness: a returned batch holding both a 200 slot and a back-filled
\* 408 slot.
C12_Witness ==
  /\ BatchReturned
  /\ \E j \in DOMAIN Returned : Returned[j].StatusCode = 200
  /\ \E j \in DOMAIN Returned : Returned[j].StatusCode = 408

\* C13: no result in a response has both a non-empty text and a non-empty
\* error.
C13_TextErrorExclusive ==
  \A r \in ResponseResults : ~(r.Body # << >> /\ r.Err # "")

\* C13 witness: a returned batch holding the text of one worker next to the
\* wrapped error of another.
C13_Witness ==
  /\ BatchReturned
  /\ \E j \in DOMAIN Returned : Returned[j].Body # << >>
  /\ \E j \in DOMAIN Returned : Returned[j].StatusCode = 500 /\ Returned[j].Err # ""

\* C14: a batch request whose item list is empty, or that has an item with
\* an empty key or url, is answered with HTTP 400 and processBatchOCR is not
\* called, so no worker is started; the index the 400 names is the smallest
\* invalid one.  Hence processBatchOCR runs only with at least one item and
\* with every key non-empty.
C14_BatchValidation ==
  LET Bad(j) == items[j].Key = "" \/ items[j].URL = ""
      Rejected == decodeErr \/ N = 0 \/ \E j \in Slots : Bad(j)
      Called == hpc \in {"launch", "collect"} \/ BatchReturned \/ results # << >>
  IN  endpoint = "batch" =>
        /\ Rejected =>
              /\ ~Called
              /\ launched = 0
              /\ \A w \in Slots : wpc[w] = "idle"
              /\ written # << >> => Len(written) = 1 /\ written[1].http = 400
              /\ (written # << >> /\ ~decodeErr /\ N > 0) =>
                    \E j \in Slots :
                      /\ Bad(j)
                      /\ \A k \in 0 .. (j - 1) : ~Bad(k)
                      /\ written[1].body = ItemRequired(j)
        /\ Called => N >= 1 /\ \A j \in Slots : items[j].Key # ""

\* C14 witness: two items, both invalid; the 400 written names item 0.
C14_Witness ==
  /\ endpoint = "batch"
  /\ ~decodeErr
  /\ N = 2
  /\ \A j \in Slots : items[j].Key = "" \/ items[j].URL = ""
  /\ written = << Response(400, ItemRequired(0)) >>
  /\ launched = 0

\* C15: once the collector has selected ctx.Done() the drain loop is over:
\* the backfill loop runs at most once per batch, and no completion message
\* is received (so no slot is written from one) after that observation.
C15_DrainLoopEndsOnCancel ==
  /\ hist.backfills <= 1
  /\ hist.recvAfterObs = 0

\* The message a worker sends after processOCR returned the error err.
ErrorMessage(w, err) ==
  [index |-> w, resp |-> APIResponse(items[w].Key, 500, << >>, err)]

\* C16: a batch worker whose processOCR call lost the race to cancellation
\* sends exactly one completion message, tagged with its own index and
\* carrying {the item's key, 500, empty text, the error text}; when the
\* collector receives it, it is written into that index only; and its error
\* does not keep any sibling from sending its own message.
C16_CancelledWorkerMessage ==
  /\ [](endpoint = "batch" =>
         \A w \in Slots :
           /\ werr[w] # Nil => werr[w] \in {Canceled, DeadlineExceeded}
           /\ hist.sent[w] <= 1
           /\ wpc[w] = "done" <=> hist.sent[w] = 1
           /\ Cardinality({k \in 1 .. Len(resultChan) : resultChan[k].index = w}) <= 1
           /\ \A k \in 1 .. Len(resultChan) :
                (resultChan[k].index = w /\ werr[w] # Nil) =>
                  resultChan[k] = ErrorMessage(w, werr[w])
           /\ werr[w] # Nil =>
                \A v \in Slots \ {w} :
                  /\ wpc[v] = "send" => ENABLED BatchSend(v)
                  /\ (wpc[v] = "select" /\ (timer[v] \/ ctxDone)) =>
                       ENABLED (ProcessOCRCompleted(v) \/ ProcessOCRCancelled(v)))
  /\ [][\A w \in Slots :
          (BatchSend(w) /\ werr[w] # Nil) =>
            resultChan' = Append(resultChan, ErrorMessage(w, werr[w]))]_vars
  /\ [][CollectRecv =>
          LET msg == Head(resultChan) IN
            /\ \A j \in Slots \ {msg.index} : results'[j] = results[j]
            /\ werr[msg.index] # Nil =>
                 results'[msg.index] = ErrorMessage(msg.index, werr[msg.index]).resp]_vars

\* C16 witness: of two workers one lost the race and its 500 message was
\* drained into its own slot, while the other sent a 200 result.
C16_Witness ==
  /\ endpoint = "batch"
  /\ N = 2
  /\ \E w \in Slots :
       /\ werr[w] # Nil
       /\ w \in hist.drained
       /\ results[w] = ErrorMessage(w, werr[w]).resp
       /\ \E v \in Slots \ {w} :
            werr[v] = Nil /\ hist.sent[v] = 1 /\ wresp[v].StatusCode = 200

\* processBatchOCR as a function of its arguments: it is called directly with
\* any slice of one or more items, empty keys included (the function itself
\* tests nothing), and runs until its return statement.
DirectInit ==
  /\ Init
  /\ endpoint = "batch"
  /\ ~decodeErr
  /\ N >= 1
  /\ \A j \in Slots : items[j].URL = "http://x"

DirectNext ==
  \/ Cancel
  \/ EnterProcessBatchOCR
  \/ BatchLaunch
  \/ WorkerTimer
  \/ WorkerCompleted
  \/ WorkerCancelled
  \/ WorkerSend
  \/ CollectRecv
  \/ CollectCancel
  \/ BatchRespond

DirectSpec == DirectInit /\ [][DirectNext]_vars

\* C17: when processBatchOCR is called with an item whose key is "" and that
\* item's completion has been drained into its slot, a later backfill does
\* not overwrite the slot (which slots are filled is tracked per slot, not
\* read off the key being empty).
C17_EmptyKeySlotKept ==
  \A j \in Slots :
    (endpoint = "batch" /\ items[j].Key = "" /\ j \in hist.drained) =>
      results[j] # BatchCancelledResponse(items[j].Key)

\* rand.Intn(n): any integer of the half-open interval [0, n).
Intn(n) == 0 .. (n - 1)

\* The draws of the text synthesis taken alone: every value rand.Intn(9999)
\* can return, with both ends of the other ranges and both sides of the
\* rand.Float32() < 0.7 test.
TextDraws ==
  { RandDraw(t, fm, w, n) :
      t \in {0, 9}, fm \in {699, 700}, w \in {0, 6}, n \in Intn(9999) }

\* POST /ocr with a valid request, at the point where processOCR's select
\* has its time.After case ready.
TextInit ==
  /\ endpoint = "ocr"
  /\ decodeErr = FALSE
  /\ in = OCRRequest("k1", "http://x")
  /\ items = << >>
  /\ hpc = "wait"
  /\ launched = 1
  /\ i = 0
  /\ results = << >>
  /\ resultChan = << >>
  /\ errorChan = << >>
  /\ wpc = [w \in Workers |-> "select"]
  /\ timer = [w \in Workers |-> TRUE]
  /\ wresp = [w \in Workers |-> ZeroResponse]
  /\ werr = [w \in Workers |-> Nil]
  /\ ctxErr = Nil
  /\ written = << >>
  /\ hist = InitHist

\* processOCR builds its 200 result from one draw.
TextNext ==
  /\ wpc[0] = "select"
  /\ \E d \in TextDraws : ProcessOCRDraw(0, d)

TextSpec == TextInit /\ [][TextNext]_vars

\* The digit a decimal character stands for.
DigitValue(c) == CHOOSE v \in 0 .. 9 : DigitChar[v + 1] = c

\* The integer a sequence of decimal digits denotes.
RECURSIVE Atoi(_)
Atoi(ds) ==
  IF ds = << >> THEN 0
  ELSE Atoi(SubSeq(ds, 1, Len(ds) - 1)) * 10 + DigitValue(ds[Len(ds)])

\* The digits at the end of a text that had "<word> <number>" appended.
AppendedDigits(body) == SubSeq(body, 5, Len(body))

\* C18: the integer appended to a recognised text is always in 1000..9999,
\* exactly four digits, whatever value the random source returns.
C18_FourDigits ==
  \A w \in DOMAIN wresp :
    (wresp[w].StatusCode = 200 /\ Len(wresp[w].Body) > 1) =>
      /\ Len(AppendedDigits(wresp[w].Body)) = 4
      /\ Atoi(AppendedDigits(wresp[w].Body)) \in 1000 .. 9999

\* C19: exactly one worker is started per item, and every worker ends after
\* one send: a started worker always has a step to take and its send never
\* blocks, even after the collector or the handler has returned, because the
\* batch channel holds N messages and the channels of POST /ocr hold one
\* each; the messages in a channel never exceed that capacity.
C19_WorkersNeverBlock ==
  /\ launched <= Cardinality(Workers)
  /\ \A w \in Workers :
       /\ hist.sent[w] <= 1
       /\ wpc[w] = "done" <=> hist.sent[w] = 1
       /\ wpc[w] = "select" => ENABLED (TimerFire(w) \/ ProcessOCRCompleted(w))
  /\ endpoint = "batch" =>
       /\ {w \in Slots : wpc[w] # "idle"} = 0 .. (launched - 1)
       /\ (hpc = "collect" \/ BatchReturned) => launched = N
       /\ Len(resultChan) <= N
       /\ \A w \in Slots : wpc[w] = "send" => ENABLED BatchSend(w)
  /\ endpoint = "ocr" =>
       /\ wpc[0] # "idle" <=> launched = 1
       /\ Len(resultChan) <= 1
       /\ Len(errorChan) <= 1
       /\ wpc[0] = "send" => ENABLED OcrSend

\* C19 witness: the batch handler has returned, one message sits undrained
\* in the channel, and a second worker is about to send.
C19_Witness ==
  /\ endpoint = "batch"
  /\ N = 2
  /\ hpc = "done"
  /\ Len(resultChan) = 1
  /\ \E w \in Slots : wpc[w] = "send"

====
